---- MODULE Spec2Model ----
(***************************************************************************)
(* A model of ua_clarity_tools.StepTools against a Clarity LIMS.           *)
(*                                                                         *)
(* The remote LIMS is a process history: NSteps processes, each with a     *)
(* name, the samples that ran through it and the outputs its protocol      *)
(* makes.  The documents the code reads (step details, process records,    *)
(* artifact records) are computed from that history; the code's methods    *)
(* are operators over those documents, and one action per handler step.    *)
(***************************************************************************)
EXTENDS Naturals, Integers, Sequences, FiniteSets, TLC

\* ------------------------------------------------------------ bounds
NSteps == 3
MaxCalls == 2

Steps == 1..NSteps
\* The step the StepTools object was made for (self.step_soup): the latest.
StartStep == NSteps
Samples == {1, 2}
StepNames == {"S", "T"}
DestSteps == {"S"}
Streams == {"input", "output"}
\* The artifact uri a caller holds for each sample (a key of art_smp_uris).
OrigUri == <<"o1", "o2", "o3">>
\* A tag the document does not carry (find() returns None): as a reference
\* to a sample or process, and as a name.
NoTag == 0
NoName == ""

VARIABLES
    \* the remote history
    stepName,    \* process -> the name of its step / process type
    stepPart,    \* process -> the samples that ran through it
    perIn,       \* the PerInput output types the protocol makes
    sharedOut,   \* the PerAllInputs output type it makes, or "none"
    rfSampleTag, \* whether a ResultFile record carries a <sample> tag
    detailsState,\* whether the uris of a step details document carry ?state=
    mixedState,  \* whether one artifact is written with differing ?state=
    \* get_artifacts_previous_step
    dflt,        \* the dict bound once to the default of `results`
    pc,          \* "idle" | "run"
    args,        \* the arguments of the current (or last) call
    cur,         \* the document step_soup of the current recursion level
    depth,       \* recursive calls made by the current (or last) call
    nInputGets,  \* batch fetches of input artifacts made by it
    forked,      \* whether some level of it found several parent processes
    outcome,     \* how the last call ended
    prev,        \* the call before it: its arguments, outcome and match step
    calls,       \* top-level calls made
    \* get_artifact_map
    mapArgs,     \* the arguments of the last call
    mapOut,      \* how it ended
    \* get_artifacts
    artsCall,    \* the arguments of the last call and how it ended
    \* the artifact records as the LIMS holds them
    tagsPre,     \* the named tags every record carries before a call
    \* set_artifact_udf
    udfCall,     \* the last call: arguments, requests issued, how it ended
    \* set_reagent_label
    labelCall,   \* the last call: arguments, requests issued, how it ended
    \* step_router
    wfConf,      \* the workflow configuration the LIMS holds
    routeCall    \* the last call: arguments, requests issued, how it ended

world == <<stepName, stepPart, perIn, sharedOut, rfSampleTag, detailsState,
           mixedState>>
lineage == <<dflt, pc, args, cur, depth, nInputGets, forked, outcome, prev, calls>>
mapping == <<mapArgs, mapOut>>
\* The state of the other methods, which a method leaves alone.
others == <<artsCall, tagsPre, udfCall, labelCall, wfConf, routeCall>>
vars == <<stepName, stepPart, perIn, sharedOut, rfSampleTag, detailsState,
          mixedState,
          dflt, pc, args, cur, depth, nInputGets, forked, outcome, prev, calls,
          mapArgs, mapOut, artsCall, tagsPre, udfCall, labelCall,
          wfConf, routeCall>>

\* ------------------------------------------------------------ helpers
Min(S) == CHOOSE x \in S : \A y \in S : x <= y
Max(S) == CHOOSE x \in S : \A y \in S : x >= y

RECURSIVE SortedSeq(_)
SortedSeq(S) == IF S = {} THEN <<>> ELSE <<Min(S)>> \o SortedSeq(S \ {Min(S)})

RECURSIVE Flatten(_)
Flatten(ss) == IF ss = <<>> THEN <<>> ELSE Head(ss) \o Flatten(Tail(ss))

Range(s) == {s[i] : i \in DOMAIN s}

\* A Python dict as a function; d[k] = v and d.get(k, default).
EmptyDict == [k \in {} |-> <<>>]
Put(d, k, v) == [x \in DOMAIN d \cup {k} |-> IF x = k THEN v ELSE d[x]]
Get(d, k, default) == IF k \in DOMAIN d THEN d[k] ELSE default

\* ------------------------------------------------------------ the LIMS
\* An artifact: the process that made it (0: submitted, no parent process),
\* its sample (0: an output shared by all inputs) and its type.
Root(s) == [step |-> 0, smp |-> s, kind |-> "Analyte"]
PerInputArt(p, s, k) == [step |-> p, smp |-> s, kind |-> k]
SharedArt(p) == [step |-> p, smp |-> 0, kind |-> sharedOut]

\* A uri with its "?state=n" suffix (0: none); split('?')[0] drops it.
Uri(a, n) == [art |-> a, state |-> n]
Strip(u) == [u EXCEPT !.state = 0]

\* The analyte of sample s that enters process p: the one made by the last
\* process before p that gave s a new analyte, else the submitted one.
Producers(p, s) ==
    {q \in 1..(p - 1) : s \in stepPart[q] /\ "Analyte" \in perIn}
InputArt(p, s) ==
    IF Producers(p, s) = {} THEN Root(s)
    ELSE PerInputArt(Max(Producers(p, s)), s, "Analyte")

\* One <input-output-map> of process p; n is the ?state= of its uris.
IoMap(n, a, o, gen) ==
    [input |-> Uri(a, n), output |-> Uri(o, n),
     output_type |-> o.kind, output_generation_type |-> gen]

\* The same input written with another suffix in a further relation.
Resuffix(m) ==
    IF mixedState /\ m.input.state # 0
    THEN [m EXCEPT !.input.state = @ + 1]
    ELSE m

PerInputMaps(p, n, s) ==
    (IF "Analyte" \in perIn
     THEN <<IoMap(n, InputArt(p, s), PerInputArt(p, s, "Analyte"), "PerInput")>>
     ELSE <<>>)
    \o
    (IF "ResultFile" \in perIn
     THEN <<Resuffix(IoMap(n, InputArt(p, s), PerInputArt(p, s, "ResultFile"),
                           "PerInput"))>>
     ELSE <<>>)

SharedMaps(p, n, s) ==
    IF sharedOut = "none" THEN <<>>
    ELSE <<Resuffix(IoMap(n, InputArt(p, s), SharedArt(p), "PerAllInputs"))>>

IoMaps(p, n) ==
    LET ss == SortedSeq(stepPart[p]) IN
    Flatten([i \in 1..Len(ss) |-> PerInputMaps(p, n, ss[i])])
    \o Flatten([i \in 1..Len(ss) |-> SharedMaps(p, n, ss[i])])

\* GET steps/<id>/details: the step name is in <configuration>.
StepDetails(p) ==
    [uri |-> p, configuration |-> stepName[p], type |-> NoName,
     iomaps |-> IoMaps(p, IF detailsState THEN p ELSE 0)]
\* GET processes/<id>: no <configuration>, the name is in <type>.
ProcessRecord(p) ==
    [uri |-> p, configuration |-> NoName, type |-> stepName[p],
     iomaps |-> IoMaps(p, p)]

\* The container an artifact sits in (NoTag: a file, in none).
ContainerOf(a) == IF a.kind = "Analyte" THEN a.step + 1 ELSE NoTag
NoCon == <<>>
ContainerRecord(c) == [uri |-> c, name |-> <<"name", c>>, type |-> <<"type", c>>]

\* The first <sample> of an artifact record (NoTag: it has none).
OwningSample(a) ==
    IF a.kind = "ResultFile" /\ ~rfSampleTag THEN NoTag
    ELSE IF a.smp # 0 THEN a.smp
    ELSE Min(stepPart[a.step])

\* One <art:artifact> of a batch answer.
ArtifactRecord(a) ==
    [uri |-> Uri(a, a.step + 1), type |-> a.kind,
     sample |-> OwningSample(a), container |-> ContainerOf(a),
     parent_process |-> IF a.step = 0 THEN NoTag ELSE a.step]

\* api.get(list): one record per distinct artifact asked for, whatever the
\* query suffix, in the order first asked.
RECURSIVE Distinct(_, _)
Distinct(s, seen) ==
    IF s = <<>> THEN <<>>
    ELSE IF Head(s) \in seen THEN Distinct(Tail(s), seen)
    ELSE <<Head(s)>> \o Distinct(Tail(s), seen \cup {Head(s)})

ApiGetBatch(uris) ==
    LET arts == Distinct([i \in 1..Len(uris) |-> uris[i].art], {}) IN
    [i \in 1..Len(arts) |-> ArtifactRecord(arts[i])]

\* ------------------------------------- get_artifacts_previous_step
\* step_soup.find("configuration").text, or on AttributeError (no such tag)
\* step_soup.find("type").text.
step_name(step_soup) ==
    IF step_soup.configuration # NoName THEN step_soup.configuration
    ELSE step_soup.type

\* The uri, query suffix dropped, of every <input> of the step.
input_uris(step_soup) ==
    [i \in 1..Len(step_soup.iomaps) |-> Strip(step_soup.iomaps[i].input)]

\* The uri of every <parent-process> tag in the batch answer: a set.
\* find_all returns a list (empty when there is no tag) and never raises,
\* so the except AttributeError branch is not reachable.
prev_steps(all_input_soup) ==
    {all_input_soup[i].parent_process : i \in
        {j \in DOMAIN all_input_soup : all_input_soup[j].parent_process # NoTag}}

\* SkipPerInputResultFile without the test: no relation is skipped.
SkipNothing(iomap) == FALSE

\* PerInput ResultFiles are skipped.
SkipPerInputResultFile(iomap) ==
    /\ iomap.output_generation_type = "PerInput"
    /\ iomap.output_type = "ResultFile"

PreviousStepArtifact(uri, art_type, generation_type) ==
    [uri |-> uri, art_type |-> art_type, generation_type |-> generation_type]

\* The stream side of an <input-output-map>: iomap.find(stream)["uri"].
StreamUri(iomap, stream) ==
    IF stream = "input" THEN iomap.input ELSE iomap.output

\* One PreviousStepArtifact per map that is not skipped: the uri of the
\* stream side with the type and generation type of the output side.
target_arts(step_soup, stream) ==
    LET kept == SelectSeq(step_soup.iomaps,
                          LAMBDA m : ~SkipPerInputResultFile(m)) IN
    [i \in 1..Len(kept) |->
        PreviousStepArtifact(Strip(StreamUri(kept[i], stream)),
                             kept[i].output_type,
                             kept[i].output_generation_type)]

target_art_uris(tarts) == [i \in 1..Len(tarts) |-> tarts[i].uri]

\* art.find("sample") is None for some fetched record: subscripting it
\* raises TypeError.
SampleTagMissing(all_target_soup) ==
    \E i \in DOMAIN all_target_soup : all_target_soup[i].sample = NoTag

\* sample uri -> the PreviousStepArtifacts whose uri is that of a fetched
\* record with that sample (outer loop the records, inner the target_arts).
RECURSIVE target_smp_arts(_, _, _)
target_smp_arts(all_target_soup, tarts, acc) ==
    IF all_target_soup = <<>> THEN acc
    ELSE LET art == Head(all_target_soup)
             hits == SelectSeq(tarts, LAMBDA t : Strip(art.uri) = t.uri)
         IN target_smp_arts(
                Tail(all_target_soup), tarts,
                IF hits = <<>> THEN acc
                ELSE Put(acc, art.sample, Get(acc, art.sample, <<>>) \o hits))

\* AssignResults with the KeyError swallowed: an item whose sample is not
\* indexed is passed over and the loop goes on.
RECURSIVE AssignResultsSkipping(_, _, _)
AssignResultsSkipping(results, art_smp_uris, smp_arts) ==
    IF art_smp_uris = <<>> THEN [results |-> results, err |-> ""]
    ELSE LET initial_art_uri == Head(art_smp_uris)[1]
             initial_smp_uri == Head(art_smp_uris)[2]
         IN AssignResultsSkipping(
                IF initial_smp_uri \in DOMAIN smp_arts
                THEN Put(results, initial_art_uri, smp_arts[initial_smp_uri])
                ELSE results,
                Tail(art_smp_uris), smp_arts)

\* results[initial_art_uri] = target_smp_arts[initial_smp_uri] for each item
\* in turn; the first KeyError stops the loop (err: the artifact it names).
RECURSIVE AssignResults(_, _, _)
AssignResults(results, art_smp_uris, smp_arts) ==
    IF art_smp_uris = <<>> THEN [results |-> results, err |-> ""]
    ELSE LET initial_art_uri == Head(art_smp_uris)[1]
             initial_smp_uri == Head(art_smp_uris)[2]
         IN IF initial_smp_uri \notin DOMAIN smp_arts
            THEN [results |-> results, err |-> initial_art_uri]
            ELSE AssignResults(
                     Put(results, initial_art_uri, smp_arts[initial_smp_uri]),
                     Tail(art_smp_uris), smp_arts)

\* results.setdefault("shared", []).append(art) for every ResultFile.
IsSharedArt(art) == art.art_type = "ResultFile"

AddShared(results, tarts) ==
    LET files == SelectSeq(tarts, IsSharedArt) IN
    IF files = <<>> THEN results
    ELSE Put(results, "shared", Get(results, "shared", <<>>) \o files)

\* The errors the transport raises: one of requests' HTTPError (an error
\* status) and one that is not (the network).
TransportErrors == {"HTTPError", "ConnectionError"}

\* How a call ends: "ok" (a dict is returned), "none" (None is returned),
\* "misaligned" (RuntimeError naming `who`), "nosample" (TypeError),
\* "transport" (the error api.get raised).
Outcome(kind, value, who) == [kind |-> kind, value |-> value, who |-> who]
NoOutcome == Outcome("", EmptyDict, "")
NoArgs == [dest_step |-> "", stream |-> "", art_smp_uris |-> <<>>]
NoDoc == [uri |-> 0, configuration |-> NoName, type |-> NoName, iomaps |-> <<>>]

\* The art_smp_uris a caller passes: its artifact for each sample of a set.
AsuOf(S) == LET ss == SortedSeq(S) IN [i \in 1..Len(ss) |-> <<OrigUri[ss[i]], ss[i]>>]
ArtSmpUris == {AsuOf(S) : S \in (SUBSET Samples) \ {{}}}

\* A top-level call, results not passed: it is the default dict.
Call(dest_step, stream, art_smp_uris) ==
    /\ pc = "idle"
    /\ calls < MaxCalls
    /\ prev' = [args |-> args, outcome |-> outcome, match |-> cur.uri]
    /\ args' = [dest_step |-> dest_step, stream |-> stream,
                art_smp_uris |-> art_smp_uris]
    /\ cur' = StepDetails(StartStep)
    /\ depth' = 0
    /\ nInputGets' = 0
    /\ forked' = FALSE
    /\ outcome' = NoOutcome
    /\ calls' = calls + 1
    /\ pc' = "run"
    /\ UNCHANGED <<world, mapping, others, dflt>>

\* step_name != dest_step and some input has a parent process: the first
\* one the set yields is fetched and the call recurses on it.
Recurse ==
    /\ pc = "run"
    /\ step_name(cur) # args.dest_step
    /\ \E step_uri \in prev_steps(ApiGetBatch(input_uris(cur))) :
           cur' = ProcessRecord(step_uri)
    /\ forked' = (forked
                  \/ Cardinality(prev_steps(ApiGetBatch(input_uris(cur)))) > 1)
    /\ depth' = depth + 1
    /\ nInputGets' = nInputGets + 1
    /\ UNCHANGED <<world, mapping, others, dflt, pc, args, outcome, prev, calls>>

\* step_name != dest_step and no input has a parent process: the for loop
\* has nothing to iterate and the function ends without a return.
ReturnNone ==
    /\ pc = "run"
    /\ step_name(cur) # args.dest_step
    /\ prev_steps(ApiGetBatch(input_uris(cur))) = {}
    /\ nInputGets' = nInputGets + 1
    /\ outcome' = Outcome("none", EmptyDict, "")
    /\ pc' = "idle"
    /\ UNCHANGED <<world, mapping, others, dflt, args, cur, depth, forked, prev, calls>>

\* step_name == dest_step: the match step.
Match ==
    /\ pc = "run"
    /\ step_name(cur) = args.dest_step
    /\ LET tarts == target_arts(cur, args.stream)
           all_target_soup == ApiGetBatch(target_art_uris(tarts))
           smp_arts == target_smp_arts(all_target_soup, tarts, EmptyDict)
           assigned == AssignResults(dflt, args.art_smp_uris, smp_arts)
       IN IF SampleTagMissing(all_target_soup)
          THEN /\ outcome' = Outcome("nosample", EmptyDict, "")
               /\ dflt' = dflt
          ELSE IF assigned.err # ""
          THEN /\ outcome' = Outcome("misaligned", EmptyDict, assigned.err)
               /\ dflt' = assigned.results
          ELSE /\ dflt' = AddShared(assigned.results, tarts)
               /\ outcome' = Outcome("ok", dflt', "")
    /\ pc' = "idle"
    /\ UNCHANGED <<world, mapping, others, args, cur, depth, nInputGets, forked, prev, calls>>

\* api.get raises (network failure, error status): the only handler around
\* is for AttributeError, so nothing catches it, and the call is over.
TransportError ==
    /\ pc = "run"
    /\ \E err \in TransportErrors : outcome' = Outcome("transport", EmptyDict, err)
    /\ pc' = "idle"
    /\ UNCHANGED <<world, mapping, others, dflt, args, cur, depth, nInputGets, forked, prev, calls>>

\* ------------------------------------------------------ get_artifacts
Ret(kind, value) == [kind |-> kind, value |-> value]

\* art_uris without the PerInput test: the stream side of every map.
art_uris_all(step_soup, stream) ==
    [i \in 1..Len(step_soup.iomaps) |-> StreamUri(step_soup.iomaps[i], stream)]

\* The uris of the stream side of every map; for "output" only PerInput ones.
art_uris(step_soup, stream) ==
    LET kept == SelectSeq(step_soup.iomaps,
                          LAMBDA m : stream # "output"
                                     \/ m.output_generation_type = "PerInput") IN
    [i \in 1..Len(kept) |-> StreamUri(kept[i], stream)]

\* The Artifact dataclass filled from one record; parent_process is read
\* into a local and never stored.
Artifact(artifact_data) ==
    [uri |-> Strip(artifact_data.uri), art_type |-> artifact_data.type,
     sample_uri |-> artifact_data.sample,
     container_uri |-> artifact_data.container,
     container_name |-> NoCon, container_type |-> NoCon,
     parent_process |-> NoTag]

WithConInfo(art) ==
    [art EXCEPT !.container_name = ContainerRecord(art.container_uri).name,
                !.container_type = ContainerRecord(art.container_uri).type]

\* "ok" with the list, "nosample" (TypeError: find("sample") is None),
\* "nocontainer" (AttributeError: con_uri_info.get(None) is None).
get_artifacts(stream, uri_only, container_info) ==
    LET uris == art_uris(StepDetails(StartStep), stream)
        batch_artifacts == ApiGetBatch(uris)
        artifacts == [i \in 1..Len(batch_artifacts) |-> Artifact(batch_artifacts[i])]
        con_uris == {artifacts[i].container_uri : i \in DOMAIN artifacts} \ {NoTag}
    IN IF uris = <<>> THEN Ret("ok", <<>>)
       ELSE IF SampleTagMissing(batch_artifacts) THEN Ret("nosample", <<>>)
       ELSE IF uri_only
       THEN Ret("ok", [i \in 1..Len(artifacts) |-> artifacts[i].uri])
       ELSE IF container_info /\ con_uris # {}
       THEN IF \E i \in DOMAIN artifacts : artifacts[i].container_uri = NoTag
            THEN Ret("nocontainer", <<>>)
            ELSE Ret("ok", [i \in 1..Len(artifacts) |-> WithConInfo(artifacts[i])])
       ELSE Ret("ok", artifacts)

\* A call of get_artifacts on the object's own step.
GetArtifacts(stream, uri_only, container_info) ==
    /\ artsCall' = [made |-> TRUE, stream |-> stream, uri_only |-> uri_only,
                    container_info |-> container_info,
                    out |-> get_artifacts(stream, uri_only, container_info)]
    /\ UNCHANGED <<world, lineage, mapping, tagsPre, udfCall, labelCall,
                   wfConf, routeCall>>

\* --------------------------------------------------- get_artifact_map
\* {art.uri: art for art in get_artifacts(stream)}
UriArt(artifacts) ==
    [u \in {artifacts[i].uri : i \in DOMAIN artifacts} |->
        artifacts[CHOOSE i \in DOMAIN artifacts : artifacts[i].uri = u]]

\* IsPerInputMap without the test: every map is entered.
AnyMap(io_map) == TRUE

\* Only the maps whose output is PerInput are entered.
IsPerInputMap(io_map) == io_map.output_generation_type = "PerInput"

\* The loop over the maps.  "nameerror": input_uri_art was never bound
\* (uri_only with container_info); "keyerror": the uri as the document writes
\* it is no key of the dicts, which are keyed by the uri without its suffix;
\* "nocontainer": api.get(None).
RECURSIVE MapLoop(_, _, _, _, _, _)
MapLoop(io_maps, uri_only, container_info, input_uri_art, output_uri_art, artifact_map) ==
    IF io_maps = <<>> THEN Ret("ok", artifact_map)
    ELSE LET io_map == Head(io_maps)
             input_uri == io_map.input
             output_uri == io_map.output
             rest == Tail(io_maps)
         IN
         IF ~IsPerInputMap(io_map)
         THEN MapLoop(rest, uri_only, container_info, input_uri_art,
                      output_uri_art, artifact_map)
         ELSE IF uri_only /\ ~container_info
         THEN MapLoop(rest, uri_only, container_info, input_uri_art,
                      output_uri_art,
                      Put(artifact_map, input_uri,
                          Append(Get(artifact_map, input_uri, <<>>), output_uri)))
         ELSE IF uri_only THEN Ret("nameerror", EmptyDict)
         ELSE IF input_uri \notin DOMAIN input_uri_art
         THEN Ret("keyerror", EmptyDict)
         ELSE IF container_info /\ input_uri_art[input_uri].container_uri = NoTag
         THEN Ret("nocontainer", EmptyDict)
         ELSE IF output_uri \notin DOMAIN output_uri_art
         THEN Ret("keyerror", EmptyDict)
         ELSE IF container_info /\ output_uri_art[output_uri].container_uri = NoTag
         THEN Ret("nocontainer", EmptyDict)
         ELSE LET input_art == IF container_info
                               THEN WithConInfo(input_uri_art[input_uri])
                               ELSE input_uri_art[input_uri]
                  output_art == IF container_info
                                THEN WithConInfo(output_uri_art[output_uri])
                                ELSE output_uri_art[output_uri]
              IN MapLoop(rest, uri_only, container_info,
                         [input_uri_art EXCEPT ![input_uri] = input_art],
                         [output_uri_art EXCEPT ![output_uri] = output_art],
                         Put(artifact_map, input_art,
                             Append(Get(artifact_map, input_art, <<>>), output_art)))

get_artifact_map(uri_only, container_info) ==
    LET ins == get_artifacts("input", FALSE, FALSE)
        outs == get_artifacts("output", FALSE, FALSE)
    IN IF ~uri_only /\ ins.kind # "ok" THEN Ret(ins.kind, EmptyDict)
       ELSE IF ~uri_only /\ outs.kind # "ok" THEN Ret(outs.kind, EmptyDict)
       ELSE MapLoop(StepDetails(StartStep).iomaps, uri_only, container_info,
                    IF uri_only THEN EmptyDict ELSE UriArt(ins.value),
                    IF uri_only THEN EmptyDict ELSE UriArt(outs.value),
                    EmptyDict)

NoMapArgs == [uri_only |-> FALSE, container_info |-> FALSE, made |-> FALSE]

GetArtifactMap(uri_only, container_info) ==
    /\ mapArgs' = [uri_only |-> uri_only, container_info |-> container_info,
                   made |-> TRUE]
    /\ mapOut' = get_artifact_map(uri_only, container_info)
    /\ UNCHANGED <<world, lineage, others>>

\* ------------------------------------------------ the artifact records
\* The children of an <art:artifact> in document order: the <sample>, the
\* <reagent-label>s, the <udf:field>s and the <workflow-stage>.  `name` is
\* the name attribute (NoName: the tag has none), `type` the type attribute
\* of a field and `text` the string inside the tag.
XmlTag(tag, name, type, text) ==
    [tag |-> tag, name |-> name, type |-> type, text |-> text]
SampleTag == XmlTag("sample", NoName, "", "")
LabelTag(name) == XmlTag("reagent-label", name, "", "")
UdfTag(name, type, text) == XmlTag("udf:field", name, type, text)
StageTag(name) == XmlTag("workflow-stage", name, "", "")

UdfNames == {"n1", "n2"}
\* The layouts of a record before a call: its labels, the type of its field
\* "n1" ("": no such field) and the name of its workflow stage.
TagLayouts ==
    [labels : {<<>>, <<"n1">>, <<"L">>, <<"L", "n1">>},
     field : {"", "Boolean", "Numeric", "String"},
     stage : {NoName, "n2"}]

\* The record of artifact a as a batch get answers it.
TagsOf(a) ==
    (IF OwningSample(a) # NoTag THEN <<SampleTag>> ELSE <<>>)
    \o [i \in 1..Len(tagsPre.labels) |-> LabelTag(tagsPre.labels[i])]
    \o (IF tagsPre.field # "" THEN <<UdfTag("n1", tagsPre.field, "old")>> ELSE <<>>)
    \o (IF tagsPre.stage # NoName THEN <<StageTag(tagsPre.stage)>> ELSE <<>>)
XmlRecord(a) == [limsid |-> a, tags |-> TagsOf(a)]
ApiGetRecords(uris) ==
    LET arts == Distinct([i \in 1..Len(uris) |-> uris[i].art], {}) IN
    [i \in 1..Len(arts) |-> XmlRecord(arts[i])]

\* A request the transport was handed, and a failure it is told to raise:
\* `at` is the number of the failing request of the call (0: none fails).
Request(method, to, body, failed) ==
    [method |-> method, to |-> to, body |-> body, failed |-> failed]
NoFail == [at |-> 0, err |-> ""]
Fails(n) == {NoFail} \cup [at : 1..n, err : TransportErrors]
\* How a call ends: "ok", or the exception that reaches the caller.
Ended(kind) == [kind |-> kind]

\* --------------------------------------------------- set_artifact_udf
\* A value a caller passes: its Python type and str(value).
Udf(name, value) == [name |-> name, value |-> value]
PyValues ==
    {[py |-> "bool", str |-> "True"], [py |-> "int", str |-> "5"],
     [py |-> "float", str |-> "1.5"], [py |-> "str", str |-> "Test"]}
\* isinstance(value, cls): bool is a subclass of int.
IsInstance(value, cls) ==
    \/ value.py = cls
    \/ (value.py = "bool" /\ cls = "int")

\* udf_type with the int test first: a bool is an int.
udf_type_int_first(value) ==
    IF IsInstance(value, "int") \/ IsInstance(value, "float") THEN "Numeric"
    ELSE IF IsInstance(value, "bool") THEN "Boolean"
    ELSE "String"

udf_type(value) ==
    IF IsInstance(value, "bool") THEN "Boolean"
    ELSE IF IsInstance(value, "int") \/ IsInstance(value, "float") THEN "Numeric"
    ELSE "String"

\* art.find(attrs={"name": n}): the first tag whose name attribute is n, of
\* whatever kind (0: None).
FindByName(tags, n) ==
    LET hits == {i \in DOMAIN tags : tags[i].name = n} IN
    IF hits = {} THEN 0 ELSE Min(hits)
\* art.find(tag): the first tag of that kind (0: None).
FindTag(tags, tag) ==
    LET hits == {i \in DOMAIN tags : tags[i].tag = tag} IN
    IF hits = {} THEN 0 ELSE Min(hits)
\* tags[at].insert_after(new)
InsertAfter(tags, at, new) ==
    SubSeq(tags, 1, at) \o <<new>> \o SubSeq(tags, at + 1, Len(tags))


\* The loop over the udfs of one record: an existing tag of that name gets
\* the new string; else a new field is put after the <sample>.  err: the
\* record has no <sample> (None.insert_after raises AttributeError).
RECURSIVE SetUdfs(_, _)
SetUdfs(tags, udfs) ==
    IF udfs = <<>> THEN [tags |-> tags, err |-> FALSE]
    ELSE LET udf == Head(udfs)
             target_udf == FindByName(tags, udf.name)
             sample == FindTag(tags, "sample")
         IN IF target_udf # 0
            THEN SetUdfs([tags EXCEPT ![target_udf].text = udf.value.str],
                         Tail(udfs))
            ELSE IF sample = 0 THEN [tags |-> tags, err |-> TRUE]
            ELSE SetUdfs(InsertAfter(tags, sample,
                             UdfTag(udf.name, udf_type(udf.value), udf.value.str)),
                         Tail(udfs))

\* The loop over the records fetched: those whose limsid is a key of
\* sample_values are changed and queued.
RECURSIVE UdfLoop(_, _, _)
UdfLoop(art_soups, sample_values, art_queue) ==
    IF art_soups = <<>> THEN [err |-> FALSE, art_queue |-> art_queue]
    ELSE LET art == Head(art_soups) IN
         IF art.limsid \notin DOMAIN sample_values
         THEN UdfLoop(Tail(art_soups), sample_values, art_queue)
         ELSE LET done == SetUdfs(art.tags, sample_values[art.limsid]) IN
              IF done.err THEN [err |-> TRUE, art_queue |-> art_queue]
              ELSE UdfLoop(Tail(art_soups), sample_values,
                           Append(art_queue, [art EXCEPT !.tags = done.tags]))

\* The uri of the stream side of every map, as written.
udf_art_uris(step_soup, stream) ==
    [i \in 1..Len(step_soup.iomaps) |-> StreamUri(step_soup.iomaps[i], stream)]

\* set_artifact_udf posting inside the loop: one update per queued record.
set_artifact_udf_post_each(sample_values, stream, fail) ==
    LET uris == udf_art_uris(StepDetails(StartStep), stream)
        get == Request("GET", "artifacts", <<>>, fail.at = 1)
        looped == UdfLoop(ApiGetRecords(uris), sample_values, <<>>)
        posts == [i \in 1..Len(looped.art_queue) |->
                     Request("POST", "artifacts/batch/update",
                             <<looped.art_queue[i]>>, FALSE)]
    IN IF get.failed THEN [reqs |-> <<get>>, out |-> Ended(fail.err)]
       ELSE IF looped.err THEN [reqs |-> <<get>>, out |-> Ended("AttributeError")]
       ELSE [reqs |-> <<get>> \o posts, out |-> Ended("ok")]

\* The whole call: one batch get, the loop, one post of the rendered queue.
set_artifact_udf(sample_values, stream, fail) ==
    LET uris == udf_art_uris(StepDetails(StartStep), stream)
        get == Request("GET", "artifacts", <<>>, fail.at = 1)
        looped == UdfLoop(ApiGetRecords(uris), sample_values, <<>>)
        post == Request("POST", "artifacts/batch/update", looped.art_queue,
                        fail.at = 2)
    IN IF get.failed THEN [reqs |-> <<get>>, out |-> Ended(fail.err)]
       ELSE IF looped.err THEN [reqs |-> <<get>>, out |-> Ended("AttributeError")]
       ELSE IF post.failed THEN [reqs |-> <<get, post>>, out |-> Ended(fail.err)]
       ELSE [reqs |-> <<get, post>>, out |-> Ended("ok")]

NoUdfCall ==
    [made |-> FALSE, stream |-> "", sample_values |-> EmptyDict, fail |-> NoFail,
     reqs |-> <<>>, out |-> Ended("")]

SetArtifactUdf(sample_values, stream, fail) ==
    /\ LET r == set_artifact_udf(sample_values, stream, fail) IN
       udfCall' = [made |-> TRUE, stream |-> stream,
                   sample_values |-> sample_values, fail |-> fail,
                   reqs |-> r.reqs, out |-> r.out]
    /\ UNCHANGED <<world, lineage, mapping, artsCall, tagsPre, labelCall,
                   wfConf, routeCall>>

\* The mappings a caller passes: the same list of udfs for each of some
\* artifacts of the stream.
UdfLists ==
    {<<Udf(n, v)>> : n \in UdfNames, v \in PyValues}
    \cup {<<Udf("n1", vw[1]), Udf("n1", vw[2])>> :
              vw \in {x \in PyValues \X PyValues : x[1] # x[2]}}
    \cup {<<Udf("n1", v), Udf("n2", v)>> : v \in PyValues}
StreamArts(stream) ==
    {StreamUri(StepDetails(StartStep).iomaps[i], stream).art :
        i \in DOMAIN StepDetails(StartStep).iomaps}
MaxSubjects == 2
SampleValues(stream) ==
    {[a \in S |-> udfs] :
        S \in {T \in SUBSET StreamArts(stream) : Cardinality(T) <= MaxSubjects},
        udfs \in UdfLists}

\* -------------------------------------------------- set_reagent_label
\* The artifacts a caller names by limsid, in the order of the dict, and the
\* values it maps them to ("": a falsey value, None or the empty string).
LabelArts == <<Root(1), Root(2), PerInputArt(1, 1, "ResultFile")>>
LabelValues == {"R", ""}
LimsidLabels ==
    UNION {[S -> LabelValues] : S \in (SUBSET Range(LabelArts)) \ {{}}}
LabelUris(limsid_label) ==
    LET keys == SelectSeq(LabelArts, LAMBDA a : a \in DOMAIN limsid_label) IN
    [i \in 1..Len(keys) |-> Uri(keys[i], 0)]

\* RemoveLabels taking find for find_all: only the first label goes.
RemoveFirstLabel(tags) ==
    LET first == FindTag(tags, "reagent-label") IN
    IF first = 0 THEN tags
    ELSE SubSeq(tags, 1, first - 1) \o SubSeq(tags, first + 1, Len(tags))

\* [tag.decompose() for tag in art.find_all("reagent-label")]
RemoveLabels(tags) == SelectSeq(tags, LAMBDA x : x.tag # "reagent-label")

\* The loop over the records fetched.  err: a label is to be put on a
\* record without <sample> (AttributeError).
RECURSIVE LabelLoop(_, _, _)
LabelLoop(art_soup, limsid_label, done) ==
    IF art_soup = <<>> THEN [err |-> FALSE, arts |-> done]
    ELSE LET art == Head(art_soup)
             reagent_label == Get(limsid_label, art.limsid, "")
             sample == FindTag(art.tags, "sample")
         IN IF reagent_label # ""
            THEN IF sample = 0 THEN [err |-> TRUE, arts |-> done]
                 ELSE LabelLoop(Tail(art_soup), limsid_label,
                          Append(done, [art EXCEPT !.tags =
                              InsertAfter(@, sample, LabelTag(reagent_label))]))
            ELSE LabelLoop(Tail(art_soup), limsid_label,
                     Append(done, [art EXCEPT !.tags = RemoveLabels(@)]))

\* The whole call: one batch get, the loop, one post of every record.
set_reagent_label(limsid_label, fail) ==
    LET get == Request("GET", "artifacts", <<>>, fail.at = 1)
        looped == LabelLoop(ApiGetRecords(LabelUris(limsid_label)),
                            limsid_label, <<>>)
        post == Request("POST", "artifacts/batch/update", looped.arts,
                        fail.at = 2)
    IN IF get.failed THEN [reqs |-> <<get>>, out |-> Ended(fail.err)]
       ELSE IF looped.err THEN [reqs |-> <<get>>, out |-> Ended("AttributeError")]
       ELSE IF post.failed THEN [reqs |-> <<get, post>>, out |-> Ended(fail.err)]
       ELSE [reqs |-> <<get, post>>, out |-> Ended("ok")]

NoLabelCall ==
    [made |-> FALSE, limsid_label |-> EmptyDict, fail |-> NoFail,
     reqs |-> <<>>, out |-> Ended("")]

SetReagentLabel(limsid_label, fail) ==
    /\ LET r == set_reagent_label(limsid_label, fail) IN
       labelCall' = [made |-> TRUE, limsid_label |-> limsid_label, fail |-> fail,
                     reqs |-> r.reqs, out |-> r.out]
    /\ UNCHANGED <<world, lineage, mapping, artsCall, tagsPre, udfCall,
                   wfConf, routeCall>>

\* -------------------------------------------------------- step_router
\* The workflows the LIMS holds under a name: whether there is one, its
\* status, the names of its stages, whether a stage has a <step> (it has
\* none in a QC protocol) and whether routed artifacts show up in the queue.
WfNames == {"W"}
StageNames == {"D", "E"}
WfConfs ==
    [found : BOOLEAN, status : {"ACTIVE", "PENDING", "ARCHIVED"},
     stages : SUBSET StageNames, has_step : BOOLEAN, queues : BOOLEAN]
\* The lists of uris a caller passes: none; an analyte, with a ?state=; an
\* analyte and a file (limsid 92-...), which no queue shows.
RouteUris ==
    {<<>>, <<Uri(Root(1), 1)>>,
     <<Uri(Root(1), 1), Uri(PerInputArt(1, 1, "ResultFile"), 2)>>}
Actions == {"assign", "unassign"}

\* is_active with the status not looked at.
any_status(workflow_cnf_soup) == TRUE

\* workflow_cnf_soup["status"] == "ACTIVE"
is_active(workflow_cnf_soup) == workflow_cnf_soup.status = "ACTIVE"

\* uri.split('/')[-1].startswith("92-")
file_uri(uri) == uri.art.kind = "ResultFile"

\* PostError with a handler for every exception.
PostErrorAny(err) == "RuntimeError"

\* What the caller gets when the routing POST fails: an HTTPError is caught
\* and RuntimeError raised in its place, anything else goes through.
PostError(err) == IF err = "HTTPError" THEN "RuntimeError" ELSE err

\* The whole call, request by request.
step_router(wf_name, dest_stage_name, route_uris, action, fail) ==
    LET artifact_uris == [i \in 1..Len(route_uris) |-> Strip(route_uris[i])]
        get_cnf == Request("GET", "configuration/workflows", <<>>, fail.at = 1)
        get_wf == Request("GET", "workflow", <<>>, fail.at = 2)
        get_stage == Request("GET", "stage", <<>>, fail.at = 3)
        post == Request("POST", "route/artifacts", artifact_uris, fail.at = 4)
        get_queue == Request("GET", "queues", <<>>, fail.at = 5)
        qc_step == ~wfConf.has_step
        queue_art_uris == IF wfConf.queues /\ action = "assign"
                          THEN Range(artifact_uris) ELSE {}
    IN IF get_cnf.failed THEN [reqs |-> <<get_cnf>>, out |-> Ended(fail.err)]
       ELSE IF ~wfConf.found \/ ~is_active(wfConf)
       THEN [reqs |-> <<get_cnf>>, out |-> Ended("CallError")]
       ELSE IF get_wf.failed
       THEN [reqs |-> <<get_cnf, get_wf>>, out |-> Ended(fail.err)]
       ELSE IF dest_stage_name \notin wfConf.stages
       THEN [reqs |-> <<get_cnf, get_wf>>, out |-> Ended("CallError")]
       ELSE IF get_stage.failed
       THEN [reqs |-> <<get_cnf, get_wf, get_stage>>, out |-> Ended(fail.err)]
       ELSE IF post.failed
       THEN [reqs |-> <<get_cnf, get_wf, get_stage, post>>,
             out |-> Ended(PostError(fail.err))]
       ELSE IF qc_step \/ action # "assign"
       THEN [reqs |-> <<get_cnf, get_wf, get_stage, post>>, out |-> Ended("ok")]
       ELSE IF get_queue.failed
       THEN [reqs |-> <<get_cnf, get_wf, get_stage, post, get_queue>>,
             out |-> Ended(fail.err)]
       ELSE IF \E i \in DOMAIN artifact_uris :
                  artifact_uris[i] \notin queue_art_uris /\ ~file_uri(artifact_uris[i])
       THEN [reqs |-> <<get_cnf, get_wf, get_stage, post, get_queue>>,
             out |-> Ended("RuntimeError")]
       ELSE [reqs |-> <<get_cnf, get_wf, get_stage, post, get_queue>>,
             out |-> Ended("ok")]

NoRouteCall ==
    [made |-> FALSE, wf_name |-> "", dest_stage_name |-> "", art_uris |-> <<>>,
     action |-> "", fail |-> NoFail, reqs |-> <<>>, out |-> Ended("")]

StepRouter(wf_name, dest_stage_name, route_uris, action, fail) ==
    /\ LET r == step_router(wf_name, dest_stage_name, route_uris, action, fail) IN
       routeCall' = [made |-> TRUE, wf_name |-> wf_name,
                     dest_stage_name |-> dest_stage_name, art_uris |-> route_uris,
                     action |-> action, fail |-> fail,
                     reqs |-> r.reqs, out |-> r.out]
    /\ UNCHANGED <<world, lineage, mapping, artsCall, tagsPre, udfCall,
                   labelCall, wfConf>>

\* ------------------------------------------------------------ the system
InitWorld ==
    /\ stepName \in [Steps -> StepNames]
    /\ stepPart \in [Steps -> (SUBSET Samples) \ {{}}]
    /\ perIn \in SUBSET {"Analyte", "ResultFile"}
    /\ sharedOut \in {"none", "Analyte", "ResultFile"}
    /\ perIn # {} \/ sharedOut # "none"
    /\ rfSampleTag \in BOOLEAN
    /\ ("ResultFile" \notin perIn /\ sharedOut # "ResultFile") => rfSampleTag

InitLineage ==
    /\ dflt = EmptyDict
    /\ pc = "idle"
    /\ args = NoArgs
    /\ cur = NoDoc
    /\ depth = 0
    /\ nInputGets = 0
    /\ forked = FALSE
    /\ outcome = NoOutcome
    /\ prev = [args |-> NoArgs, outcome |-> NoOutcome, match |-> 0]
    /\ calls = 0

InitMapping ==
    /\ mapArgs = NoMapArgs
    /\ mapOut = Ret("", EmptyDict)

InitArts == artsCall = [made |-> FALSE, stream |-> "", uri_only |-> FALSE,
                         container_info |-> FALSE, out |-> Ret("", <<>>)]

InitTags == tagsPre \in TagLayouts
InitUdf == udfCall = NoUdfCall
InitLabel == labelCall = NoLabelCall
InitRoute == routeCall = NoRouteCall
\* An active workflow with both stages, whose queue shows what is routed.
InitWf ==
    wfConf = [found |-> TRUE, status |-> "ACTIVE", stages |-> StageNames,
              has_step |-> TRUE, queues |-> TRUE]

InitRest ==
    /\ InitArts
    /\ tagsPre = [labels |-> <<>>, field |-> "", stage |-> NoName]
    /\ InitUdf
    /\ InitLabel
    /\ InitWf
    /\ InitRoute

\* The lineage resolver: calls of get_artifacts_previous_step.  Whatever the
\* uris of the documents carry after "?" is dropped before any use.
Init ==
    /\ InitWorld
    /\ detailsState = TRUE
    /\ mixedState = FALSE
    /\ InitLineage
    /\ InitMapping
    /\ InitRest

Next ==
    \/ \E d \in DestSteps, st \in Streams, asu \in ArtSmpUris : Call(d, st, asu)
    \/ Recurse
    \/ ReturnNone
    \/ Match
    \/ TransportError

Spec == Init /\ [][Next]_vars

\* The io map builder: calls of get_artifact_map on the object's own step.
InitMap ==
    /\ InitWorld
    /\ detailsState \in BOOLEAN
    /\ mixedState \in BOOLEAN
    /\ detailsState \/ ~mixedState
    /\ InitLineage
    /\ InitMapping
    /\ InitRest

NextMap ==
    \E uri_only \in BOOLEAN, container_info \in BOOLEAN :
        GetArtifactMap(uri_only, container_info)

SpecMap == InitMap /\ [][NextMap]_vars

\* The artifact fetch: calls of get_artifacts on the object's own step.
NextArts ==
    \E stream \in Streams, uri_only \in BOOLEAN, container_info \in BOOLEAN :
        GetArtifacts(stream, uri_only, container_info)

SpecArts == InitMap /\ [][NextArts]_vars

\* One step, whose inputs come from earlier steps that ran every sample.
InitStep ==
    /\ stepName = [p \in Steps |-> "S"]
    /\ stepPart \in [Steps -> (SUBSET Samples) \ {{}}]
    /\ \A p \in Steps \ {StartStep} : stepPart[p] = Samples
    /\ perIn \in SUBSET {"Analyte", "ResultFile"}
    /\ sharedOut \in {"none", "Analyte", "ResultFile"}
    /\ perIn # {} \/ sharedOut # "none"
    /\ rfSampleTag \in BOOLEAN
    /\ ("ResultFile" \notin perIn /\ sharedOut # "ResultFile") => rfSampleTag
    /\ detailsState = FALSE
    /\ mixedState = FALSE
    /\ InitLineage
    /\ InitMapping
    /\ InitArts

\* The udf update: calls of set_artifact_udf on the object's own step.
InitUdfs ==
    /\ InitStep
    /\ InitTags /\ "L" \notin {tagsPre.labels[i] : i \in DOMAIN tagsPre.labels}
    /\ InitUdf
    /\ InitLabel
    /\ InitWf
    /\ InitRoute

\* One call in a behaviour: the method keeps nothing from call to call.
NextUdfs ==
    /\ ~udfCall.made
    /\ \E stream \in Streams, fail \in Fails(2) :
           \E sample_values \in SampleValues(stream) :
               SetArtifactUdf(sample_values, stream, fail)

SpecUdfs == InitUdfs /\ [][NextUdfs]_vars

\* The label update: calls of set_reagent_label.
InitLabels ==
    InitStep /\ InitTags /\ InitUdf /\ InitLabel /\ InitWf /\ InitRoute

NextLabels ==
    /\ ~labelCall.made
    /\ \E limsid_label \in LimsidLabels, fail \in Fails(2) :
           SetReagentLabel(limsid_label, fail)

SpecLabels == InitLabels /\ [][NextLabels]_vars

\* One history, with records that carry a label and a field.
InitOneWorld ==
    /\ stepName = [p \in Steps |-> "S"]
    /\ stepPart = [p \in Steps |-> Samples]
    /\ perIn = {"Analyte"}
    /\ sharedOut = "ResultFile"
    /\ rfSampleTag = TRUE
    /\ detailsState = FALSE
    /\ mixedState = FALSE
    /\ InitLineage
    /\ InitMapping
    /\ InitArts
    /\ tagsPre = [labels |-> <<"L">>, field |-> "Numeric", stage |-> NoName]

\* The router: calls of step_router.
InitRouter ==
    /\ InitOneWorld
    /\ InitUdf
    /\ InitLabel
    /\ wfConf \in WfConfs
    /\ InitRoute

NextRouter ==
    /\ ~routeCall.made
    /\ \E wf_name \in WfNames, dest_stage_name \in {"D"}, route_uris \in RouteUris,
          action \in Actions, fail \in Fails(5) :
           StepRouter(wf_name, dest_stage_name, route_uris, action, fail)

SpecRouter == InitRouter /\ [][NextRouter]_vars

\* The transport under every operation that talks to it: one call of one
\* of them in a behaviour, on one history whose steps have any names.
TransportTags ==
    {[labels |-> <<>>, field |-> "", stage |-> NoName],
     [labels |-> <<"L">>, field |-> "Numeric", stage |-> NoName]}

InitTransport ==
    /\ stepName \in [Steps -> StepNames]
    /\ stepPart = [p \in Steps |-> Samples]
    /\ perIn = {"Analyte"}
    /\ sharedOut = "ResultFile"
    /\ rfSampleTag = TRUE
    /\ detailsState = FALSE
    /\ mixedState = FALSE
    /\ InitLineage
    /\ InitMapping
    /\ InitArts
    /\ tagsPre \in TransportTags
    /\ InitUdf
    /\ InitLabel
    /\ wfConf \in {w \in WfConfs : w.found /\ w.stages = StageNames}
    /\ InitRoute

Quiet == calls = 0 /\ ~udfCall.made /\ ~labelCall.made /\ ~routeCall.made

NextTransport ==
    \/ Quiet /\ \E d \in DestSteps, st \in Streams, asu \in ArtSmpUris : Call(d, st, asu)
    \/ Recurse
    \/ ReturnNone
    \/ Match
    \/ TransportError
    \/ Quiet /\ \E stream \in Streams, fail \in Fails(2) :
                    \E sample_values \in SampleValues(stream) :
                        SetArtifactUdf(sample_values, stream, fail)
    \/ Quiet /\ \E limsid_label \in LimsidLabels, fail \in Fails(2) :
                    SetReagentLabel(limsid_label, fail)
    \/ Quiet /\ \E wf_name \in WfNames, dest_stage_name \in StageNames,
                     route_uris \in RouteUris, action \in Actions, fail \in Fails(5) :
                    StepRouter(wf_name, dest_stage_name, route_uris, action, fail)

SpecTransport == InitTransport /\ [][NextTransport]_vars

\* ------------------------------------------------------------ claims
\* What the claims speak of, read off the history and the documents.
Returned == pc = "idle" /\ calls >= 1
Finished == Returned /\ outcome.kind # "transport"
AtMatch == step_name(cur) = args.dest_step
Keys(art_smp_uris) == {art_smp_uris[j][1] : j \in DOMAIN art_smp_uris}

\* The relations of the step reached that are not PerInput ResultFiles, the
\* artifact on the stream side of each and the reference made for it.
Kept ==
    {i \in DOMAIN cur.iomaps :
        ~(cur.iomaps[i].output_generation_type = "PerInput"
          /\ cur.iomaps[i].output_type = "ResultFile")}
SideArt(i) ==
    IF args.stream = "input" THEN cur.iomaps[i].input.art
    ELSE cur.iomaps[i].output.art
RefOf(i) ==
    [uri |-> [art |-> SideArt(i), state |-> 0],
     art_type |-> cur.iomaps[i].output_type,
     generation_type |-> cur.iomaps[i].output_generation_type]
KeptOfSample(s) == {i \in Kept : OwningSample(SideArt(i)) = s}
Occurrences(seq, x) == Cardinality({i \in DOMAIN seq : seq[i] = x})

\* The processes reached backward from the start step over parent-process
\* links, and the fewest hops to one named n (NSteps + 1: there is none).
ParentsOf(p) == {InputArt(p, s).step : s \in stepPart[p]} \ {0}
RECURSIVE Ancestors(_)
Ancestors(p) == {p} \cup UNION {Ancestors(q) : q \in ParentsOf(p)}
RECURSIVE Hops(_, _)
Hops(p, n) ==
    IF stepName[p] = n THEN 0
    ELSE IF \A q \in Ancestors(p) : stepName[q] # n THEN NSteps + 1
    ELSE 1 + Min({Hops(q, n) : q \in ParentsOf(p)})

\* The step S of the end-to-end scenario is the start step: two inputs, a
\* PerInput Analyte for each and one PerAllInputs ResultFile for both.
ScenarioS ==
    /\ stepName[StartStep] = "S"
    /\ stepPart[StartStep] = {1, 2}
    /\ perIn = {"Analyte"}
    /\ sharedOut = "ResultFile"
ScenarioCall ==
    /\ Finished
    /\ calls = 1
    /\ args = [dest_step |-> "S", stream |-> "input",
               art_smp_uris |-> <<<<"o1", 1>>, <<"o2", 2>>>>]

\* C1: in the scenario, the call with a fresh accumulator returns exactly
\* {O1: [A1], O2: [A2], shared: [R]}: one reference to the input of each
\* sample under its artifact, one reference to the shared file under "shared".
C1_ScenarioResult ==
    (ScenarioS /\ ScenarioCall) =>
        /\ outcome.kind = "ok"
        /\ DOMAIN outcome.value = {"o1", "o2", "shared"}
        /\ Len(outcome.value["o1"]) = 1
        /\ outcome.value["o1"][1].uri.art = InputArt(StartStep, 1)
        /\ Len(outcome.value["o2"]) = 1
        /\ outcome.value["o2"][1].uri.art = InputArt(StartStep, 2)
        /\ Len(outcome.value["shared"]) = 1
        /\ outcome.value["shared"][1].uri.art = SharedArt(StartStep)

C3_ExhaustedFails ==
    (/\ Finished
     /\ args.art_smp_uris # <<>>
     /\ \A q \in Ancestors(StartStep) : stepName[q] # args.dest_step)
        => outcome.kind = "exhausted"

\* C4: a call that met several distinct parent processes at one level does
\* not return a result.
C4_ForkNeverReturns ==
    ~(Returned /\ forked /\ outcome.kind = "ok")

\* C5: a call repeated with the same arguments, which ends at the same
\* match step as the one before it, returns the same mapping.
C5_SameResultTwice ==
    (/\ Returned /\ calls >= 2
     /\ args = prev.args /\ cur.uri = prev.match
     /\ prev.outcome.kind = "ok" /\ outcome.kind = "ok")
        => outcome.value = prev.outcome.value

\* C6: the keys of a returned mapping are the artifacts supplied to that
\* call, with or without "shared", and "shared" holds nothing but references
\* made by that call.
C6_OnlyOwnKeys ==
    (Returned /\ outcome.kind = "ok") =>
        /\ Keys(args.art_smp_uris) \subseteq DOMAIN outcome.value
        /\ DOMAIN outcome.value \subseteq Keys(args.art_smp_uris) \cup {"shared"}
        /\ Len(Get(outcome.value, "shared", <<>>)) <= Cardinality(Kept)

\* The supplied pairs whose sample is the sample of no indexed artifact.
Unmatched ==
    {j \in DOMAIN args.art_smp_uris : KeptOfSample(args.art_smp_uris[j][2]) = {}}
IndexBuilt == \A i \in Kept : OwningSample(SideArt(i)) # NoTag

SharedOutputs ==
    {cur.iomaps[i].output.art : i \in
        {k \in DOMAIN cur.iomaps :
            cur.iomaps[k].output_generation_type = "PerAllInputs"}}

\* C8: with a fresh accumulator, "shared" holds one entry for each distinct
\* PerAllInputs output of the match step and no artifact twice.
C8_SharedOncePerOutput ==
    (Returned /\ calls = 1 /\ outcome.kind = "ok") =>
        LET shared == Get(outcome.value, "shared", <<>>) IN
        /\ Len(shared) = Cardinality(SharedOutputs)
        /\ {shared[i].uri.art : i \in DOMAIN shared} = SharedOutputs

\* The relations get_artifact_map reads, by generation type, and what a key
\* or a listed output of the map stands for (a uri, or an Artifact).
MapDoc == StepDetails(StartStep)
PerInputRels ==
    {i \in DOMAIN MapDoc.iomaps :
        MapDoc.iomaps[i].output_generation_type = "PerInput"}
SharedRels == DOMAIN MapDoc.iomaps \ PerInputRels
ArtOf(x) == IF "art" \in DOMAIN x THEN x.art ELSE x.uri.art
InputArts == {MapDoc.iomaps[i].input.art : i \in DOMAIN MapDoc.iomaps}
RECURSIVE Entries(_, _)
Entries(m, K) ==
    IF K = {} THEN 0
    ELSE LET k == CHOOSE x \in K : TRUE IN Len(m[k]) + Entries(m, K \ {k})
ListedUnder(m, k) == {ArtOf(m[k][j]) : j \in DOMAIN m[k]}
MapReturned == mapArgs.made /\ mapOut.kind = "ok"

\* C9 as stated: N entries under the inputs, and the outputs of the M
\* PerAllInputs relations together under one further key, "shared".
C9_SharedKey ==
    MapReturned =>
        /\ Entries(mapOut.value,
                   {k \in DOMAIN mapOut.value : ArtOf(k) \in InputArts})
               = Cardinality(PerInputRels)
        /\ SharedRels # {} =>
               \E k \in DOMAIN mapOut.value :
                   /\ ArtOf(k) \notin InputArts
                   /\ ListedUnder(mapOut.value, k)
                          = {MapDoc.iomaps[i].output.art : i \in SharedRels}

\* C9, amended: a returned map holds N entries, one for each PerInput
\* relation under the input of that relation, and nothing for the M
\* PerAllInputs relations: every key is an input and no list holds a shared
\* output.
C9_PerInputOnly ==
    MapReturned =>
        /\ Entries(mapOut.value, DOMAIN mapOut.value) = Cardinality(PerInputRels)
        /\ \A i \in PerInputRels :
               \E k \in DOMAIN mapOut.value :
                   /\ ArtOf(k) = MapDoc.iomaps[i].input.art
                   /\ MapDoc.iomaps[i].output.art \in ListedUnder(mapOut.value, k)
        /\ \A k \in DOMAIN mapOut.value :
               /\ ArtOf(k) \in InputArts
               /\ \A i \in SharedRels :
                      MapDoc.iomaps[i].output.art \notin ListedUnder(mapOut.value, k)

\* C9 happens: a map of Artifacts was returned for a step with four PerInput
\* and two PerAllInputs relations.
C9_Witness ==
    /\ MapReturned /\ ~mapArgs.uri_only
    /\ Cardinality(PerInputRels) = 4
    /\ Cardinality(SharedRels) = 2
    /\ \E k \in DOMAIN mapOut.value : Len(mapOut.value[k]) = 2

\* C10: a call that reaches a step named dest_step has recursed once for each
\* parent-process hop from the start step to the nearest step of that name,
\* and has fetched no input artifacts when the start step has that name.
C10_DepthIsHops ==
    (Finished /\ AtMatch) =>
        /\ depth = Hops(StartStep, args.dest_step)
        /\ stepName[StartStep] = args.dest_step => nInputGets = 0

\* What get_artifacts was asked and what it gave back: the stripped uris the
\* step details record on a stream, those of its PerInput relations only,
\* and the stripped uri of each entry returned.
ArtsReturned == artsCall.made /\ artsCall.out.kind = "ok"
RecordedOn(stream) ==
    {Strip(StreamUri(MapDoc.iomaps[i], stream)) : i \in DOMAIN MapDoc.iomaps}
FetchedOn(stream) ==
    IF stream = "input" THEN RecordedOn(stream)
    ELSE {Strip(MapDoc.iomaps[i].output) : i \in PerInputRels}
EntryUri(e) == IF "art" \in DOMAIN e THEN e ELSE e.uri
EntryUris(entries) == {EntryUri(entries[i]) : i \in DOMAIN entries}

KeysOf(i) == {k \in DOMAIN mapOut.value : ArtOf(k) = i}
IdOf(x) == IF "art" \in DOMAIN x THEN x ELSE x.uri
ListedIds(m, k) == {IdOf(m[k][j]) : j \in DOMAIN m[k]}

\* C12: a returned map relates input i to output o exactly when the step
\* records a PerInput relation from i to o, and each input has one key, whose
\* list holds all its PerInput outputs.
C12_PerInputRelation ==
    MapReturned =>
        /\ \A i \in InputArts : \A k \in KeysOf(i) :
               ListedUnder(mapOut.value, k) \subseteq
                   {MapDoc.iomaps[r].output.art :
                        r \in {q \in PerInputRels : MapDoc.iomaps[q].input.art = i}}
        /\ \A k \in DOMAIN mapOut.value : ArtOf(k) \in InputArts
        /\ \A r \in PerInputRels :
               LET i == MapDoc.iomaps[r].input.art IN
               /\ Cardinality(KeysOf(i)) = 1
               /\ \A k \in KeysOf(i) :
                      MapDoc.iomaps[r].output.art \in ListedUnder(mapOut.value, k)

\* C13: every key and every listed output of a returned map is identified by
\* a uri without query suffix, and relations whose inputs differ only in the
\* suffix share one key.
C13_StrippedKeys ==
    MapReturned =>
        /\ \A k \in DOMAIN mapOut.value :
               /\ IdOf(k) = Strip(IdOf(k))
               /\ \A u \in ListedIds(mapOut.value, k) : u = Strip(u)
        /\ \A i \in InputArts : Cardinality(KeysOf(i)) <= 1

\* What a call of set_artifact_udf was given and what it sent: the POSTs
\* among its requests, the records they carry, the fields of a record, the
\* record as it was before, and the first and last value passed for a name.
UdfPosts == SelectSeq(udfCall.reqs, LAMBDA q : q.method = "POST")
UdfSent == IF UdfPosts = <<>> THEN <<>> ELSE UdfPosts[1].body
FieldsNamed(tags, n) ==
    {i \in DOMAIN tags : tags[i].tag = "udf:field" /\ tags[i].name = n}
PassedFor(rec, n) ==
    SelectSeq(udfCall.sample_values[rec.limsid], LAMBDA u : u.name = n)
TypeFor(value) ==
    CASE value.py = "bool" -> "Boolean"
      [] value.py \in {"int", "float"} -> "Numeric"
      [] OTHER -> "String"

\* C14: a field of a submitted record that the record did not have before the
\* call is typed by the first value passed for its name: Boolean for a bool,
\* Numeric for an int or a float, String for anything else.
C14_NewFieldType ==
    udfCall.made =>
        \A j \in DOMAIN UdfSent : \A n \in UdfNames :
            LET rec == UdfSent[j] IN
            (FieldsNamed(TagsOf(rec.limsid), n) = {}) =>
                \A i \in FieldsNamed(rec.tags, n) :
                    /\ PassedFor(rec, n) # <<>>
                    /\ rec.tags[i].type = TypeFor(PassedFor(rec, n)[1].value)
                    /\ rec.tags[i].text = PassedFor(rec, n)[Len(PassedFor(rec, n))].value.str

\* C14 happens: for two subjects in one call, a record was submitted with a
\* new field typed Boolean by a bool, whose text is the int passed after it.
C14_Witness ==
    /\ udfCall.made /\ udfCall.out.kind = "ok"
    /\ Len(UdfSent) = 2
    /\ FieldsNamed(TagsOf(UdfSent[1].limsid), "n1") = {}
    /\ \E i \in FieldsNamed(UdfSent[1].tags, "n1") :
           /\ UdfSent[1].tags[i].type = "Boolean"
           /\ UdfSent[1].tags[i].text = "5"

\* C15: a field the record had before the call and that the call sets is in
\* the submitted record once, with the type it had and the last value passed
\* as its text.
C15_ExistingFieldKept ==
    udfCall.made =>
        \A j \in DOMAIN UdfSent : \A n \in UdfNames :
            LET rec == UdfSent[j]
                before == TagsOf(rec.limsid)
            IN (FieldsNamed(before, n) # {} /\ PassedFor(rec, n) # <<>>) =>
                /\ Cardinality(FieldsNamed(rec.tags, n)) = 1
                /\ \A i \in FieldsNamed(rec.tags, n) :
                       /\ \E b \in FieldsNamed(before, n) :
                              rec.tags[i].type = before[b].type
                       /\ rec.tags[i].text =
                              PassedFor(rec, n)[Len(PassedFor(rec, n))].value.str

\* C16 as stated: every call has issued exactly one POST.
C16_OnePostEveryCall ==
    udfCall.made => Len(UdfPosts) = 1

\* C16, amended: a call that returns has issued exactly one POST, to the
\* batch update, carrying the record of every subject of the mapping; a call
\* that raises has issued none, or the one that failed.
C16_OnePostPerReturn ==
    udfCall.made =>
        /\ udfCall.out.kind = "ok" =>
               /\ Len(UdfPosts) = 1
               /\ UdfPosts[1].to = "artifacts/batch/update"
               /\ {UdfSent[j].limsid : j \in DOMAIN UdfSent}
                      = DOMAIN udfCall.sample_values
               /\ Len(UdfSent) = Cardinality(DOMAIN udfCall.sample_values)
        /\ udfCall.out.kind # "ok" =>
               /\ Len(UdfPosts) <= 1
               /\ \A i \in DOMAIN UdfPosts : UdfPosts[i].failed

\* C16 happens: a call with two subjects returned.
C16_Witness ==
    /\ udfCall.made /\ udfCall.out.kind = "ok"
    /\ Cardinality(DOMAIN udfCall.sample_values) = 2
    /\ Len(UdfSent) = 2

\* What a call of set_reagent_label sent, and the labels of a record.
LabelPosts == SelectSeq(labelCall.reqs, LAMBDA q : q.method = "POST")
LabelSent == IF LabelPosts = <<>> THEN <<>> ELSE LabelPosts[1].body
LabelsOf(rec) == SelectSeq(rec.tags, LAMBDA x : x.tag = "reagent-label")

\* C19: a submitted record whose limsid is mapped to a label carries one
\* reagent-label, named as mapped.
C19_OneLabel ==
    labelCall.made =>
        \A j \in DOMAIN LabelSent :
            LET rec == LabelSent[j] IN
            labelCall.limsid_label[rec.limsid] # "" =>
                LabelsOf(rec) = <<LabelTag(labelCall.limsid_label[rec.limsid])>>

\* C20: a submitted record whose limsid is mapped to a falsey value carries
\* no reagent-label.
C20_NoLabel ==
    labelCall.made =>
        \A j \in DOMAIN LabelSent :
            LET rec == LabelSent[j] IN
            labelCall.limsid_label[rec.limsid] = "" => LabelsOf(rec) = <<>>

\* C20 happens: a record that had two labels was submitted without any, next
\* to a record that was given one.
C20_Witness ==
    /\ labelCall.made /\ labelCall.out.kind = "ok"
    /\ Len(tagsPre.labels) = 2
    /\ Len(LabelSent) = 2
    /\ labelCall.limsid_label[LabelSent[1].limsid] = "R"
    /\ labelCall.limsid_label[LabelSent[2].limsid] = ""
    /\ LabelsOf(LabelSent[2]) = <<>>

\* What a call of step_router was about and what it sent: a call is
\* malformed when the LIMS has no workflow of that name, or one that is not
\* ACTIVE, or one without a stage of the name given.
Malformed ==
    \/ ~wfConf.found
    \/ wfConf.status # "ACTIVE"
    \/ routeCall.dest_stage_name \notin wfConf.stages
RoutePosts == SelectSeq(routeCall.reqs, LAMBDA q : q.method = "POST")
FailedGets ==
    SelectSeq(routeCall.reqs, LAMBDA q : q.method = "GET" /\ q.failed)

\* C17 as stated: a malformed call raises CallError and has issued no POST.
C17_CallError ==
    (routeCall.made /\ Malformed) =>
        /\ routeCall.out.kind = "CallError"
        /\ RoutePosts = <<>>

\* C17, amended: a malformed call has issued no POST, and raises CallError
\* unless one of its lookups failed, whose error it then raises.
C17_NoPostWhenMalformed ==
    (routeCall.made /\ Malformed) =>
        /\ RoutePosts = <<>>
        /\ FailedGets = <<>> => routeCall.out.kind = "CallError"
        /\ FailedGets # <<>> => routeCall.out.kind = routeCall.fail.err

\* C17 happens: artifacts were to be routed to a stage of a workflow that is
\* there but not ACTIVE, and CallError was raised.
C17_Witness ==
    /\ routeCall.made /\ routeCall.art_uris # <<>>
    /\ wfConf.found /\ wfConf.status = "ARCHIVED"
    /\ routeCall.dest_stage_name \in wfConf.stages
    /\ routeCall.out.kind = "CallError"
    /\ Len(routeCall.reqs) = 1

\* What a call did with a request the transport failed: it is the last one
\* the call issued, and the call raised raised[m], m the request's method.
FailedRaises(c, raised) ==
    \A i \in DOMAIN c.reqs :
        c.reqs[i].failed =>
            (i = Len(c.reqs) /\ c.out.kind = raised[c.reqs[i].method])
\* A failed fetch of the lineage resolver: the error is the call's outcome
\* and no batch of inputs was fetched beyond the one of each step passed.
LineageRaises ==
    outcome.kind = "transport" =>
        /\ outcome.who \in TransportErrors
        /\ pc = "idle"
        /\ nInputGets = depth
TheError(c) == [m \in {"GET", "POST"} |-> c.fail.err]

OutputsOf(rels) == {Strip(MapDoc.iomaps[i].output) : i \in rels}

Succeeded == Returned /\ outcome.kind = "ok"
OwnKeys == DOMAIN outcome.value \ {"shared"}
RefsOfKey(k) == {outcome.value[k][j] : j \in DOMAIN outcome.value[k]}
AllRefs == UNION {RefsOfKey(k) : k \in DOMAIN outcome.value}
OwnRefs == UNION {RefsOfKey(k) : k \in OwnKeys}

\* C22: no list of a successful result, under an artifact or under "shared",
\* holds a reference built from a relation whose output is a PerInput
\* ResultFile.
C22_NoPerInputResultFile ==
    Succeeded =>
        \A r \in AllRefs :
            ~(r.art_type = "ResultFile" /\ r.generation_type = "PerInput")

\* C22 happens: the match step has PerInput ResultFile relations beside
\* others, and the call returned references.
C22_Witness ==
    /\ Succeeded
    /\ "ResultFile" \in perIn
    /\ Kept # DOMAIN cur.iomaps
    /\ AllRefs # {}

\* C23: in a successful result no list under a supplied artifact holds a
\* reference whose generation type is PerAllInputs.
C23_SharedOnlyUnderShared ==
    Succeeded => \A r \in OwnRefs : r.generation_type # "PerAllInputs"

\* A level that still looks for dest_step and has fetched an input that has
\* no parent process.
RootlessLevel ==
    /\ pc = "run"
    /\ step_name(cur) # args.dest_step
    /\ \E i \in DOMAIN ApiGetBatch(input_uris(cur)) :
           ApiGetBatch(input_uris(cur))[i].parent_process = NoTag

\* C24: from a level that is not dest_step and has an input without a
\* parent process, unless a fetch fails, the call ends with the
\* history-exhausted error; it goes to no other step.
C24_RootlessFails ==
    [][(RootlessLevel /\ outcome'.kind # "transport") =>
           (pc' = "idle" /\ outcome'.kind = "exhausted")]_vars

\* C25: every Artifact returned in object mode has the parent process of its
\* record as parent_process, and none only when the record has none.
C25_ParentProcessKept ==
    (ArtsReturned /\ ~artsCall.uri_only) =>
        \A i \in DOMAIN artsCall.out.value :
            artsCall.out.value[i].parent_process
                = ArtifactRecord(artsCall.out.value[i].uri.art).parent_process

\* C26: with container_info, on a step whose records all name a sample, the
\* call returns; an Artifact with a container has that container's name and
\* type, and one without has neither.
C26_ContainerInfoReturns ==
    (artsCall.made /\ artsCall.container_info /\ ~artsCall.uri_only
     /\ rfSampleTag) =>
        /\ artsCall.out.kind = "ok"
        /\ \A i \in DOMAIN artsCall.out.value :
               LET art == artsCall.out.value[i] IN
               IF art.container_uri = NoTag
               THEN art.container_name = NoCon /\ art.container_type = NoCon
               ELSE /\ art.container_name = ContainerRecord(art.container_uri).name
                    /\ art.container_type = ContainerRecord(art.container_uri).type

\* C27: on a step with a PerInput relation, a call of get_artifact_map
\* returns a map, whichever of uri_only and container_info are set.
C27_MapInEveryMode ==
    (mapArgs.made /\ PerInputRels # {}) => mapOut.kind = "ok"

\* The elements of a record that are not user-defined fields, in order.
NonUdf(tags) == SelectSeq(tags, LAMBDA x : x.tag # "udf:field")

\* C28: every record set_artifact_udf submits is that of a subject of the
\* mapping, and its elements other than user-defined fields are as they were
\* before the call, name and content.
C28_OnlyUdfsChange ==
    udfCall.made =>
        \A j \in DOMAIN UdfSent :
            /\ UdfSent[j].limsid \in DOMAIN udfCall.sample_values
            /\ NonUdf(UdfSent[j].tags) = NonUdf(TagsOf(UdfSent[j].limsid))

====
